---- MODULE Spec2Model ----
(***************************************************************************)
(* rtk-setup-next: a one-shot scaffolding script (src/setup.js).  The file *)
(* holds two revisions of the script back to back: lines 1-294 (rev 1) and *)
(* lines 295-504 (rev 2).  Both are modelled; `rev' selects one.           *)
(*                                                                         *)
(* File contents are sequences of atoms.  An atom is a piece of text that  *)
(* is never split by the searches the script performs; the three searched  *)
(* strings are atom sequences themselves:                                  *)
(*     "ReduxProvider"  = <<"ReduxProvider">>                              *)
(*     "return ("       = <<"return", " ", "(">>                           *)
(*     ");"             = <<")", ";">>                                     *)
(* so indexOf / lastIndexOf / includes are real substring searches.        *)
(***************************************************************************)
EXTENDS Integers, Sequences, FiniteSets, TLC

\* ------------------------------------------------------------------ bounds
MaxLen == 4      \* lexemes in an enumerated pre-existing layout.js
MaxRuns == 2     \* successive invocations of the script in one directory

\* ----------------------------------------------------- JavaScript strings
WhiteSpace == {" ", "\n", "  ", "    ", "      ", "        ", "          ", "            "}

RECURSIVE TrimStart(_)
TrimStart(s) ==
  IF s # <<>> /\ Head(s) \in WhiteSpace THEN TrimStart(Tail(s)) ELSE s

RECURSIVE TrimEnd(_)
TrimEnd(s) ==
  IF s # <<>> /\ s[Len(s)] \in WhiteSpace
    THEN TrimEnd(SubSeq(s, 1, Len(s) - 1)) ELSE s

\* String.prototype.trim
Trim(s) == TrimEnd(TrimStart(s))

\* does pattern p occur in s at 0-based position i
MatchAt(s, p, i) ==
  /\ i >= 0
  /\ i + Len(p) <= Len(s)
  /\ \A k \in 1..Len(p) : s[i + k] = p[k]

Occurrences(s, p) == {i \in 0..Len(s) : MatchAt(s, p, i)}

SetMin(S) == CHOOSE x \in S : \A y \in S : x <= y
SetMax(S) == CHOOSE x \in S : \A y \in S : x >= y

\* String.prototype.indexOf: first occurrence, -1 when there is none
IndexOf(s, p) ==
  IF Occurrences(s, p) = {} THEN -1 ELSE SetMin(Occurrences(s, p))

\* mutant: anchors on the first occurrence instead of the last
LastIndexOfFirst(s, p) == IndexOf(s, p)

\* String.prototype.lastIndexOf: last occurrence, -1 when there is none
LastIndexOf(s, p) ==
  IF Occurrences(s, p) = {} THEN -1 ELSE SetMax(Occurrences(s, p))

\* String.prototype.includes
Includes(s, p) == IndexOf(s, p) # -1

\* String.prototype.substring(a, b): 0-based, end exclusive
Substring(s, a, b) == SubSeq(s, a + 1, b)

\* String.prototype.substring(a): to the end
SubstringFrom(s, a) == SubSeq(s, a + 1, Len(s))

RECURSIVE Flatten(_)
Flatten(ss) == IF ss = <<>> THEN <<>> ELSE Head(ss) \o Flatten(Tail(ss))

\* ------------------------------------------------------- searched strings
ReturnOpen == <<"return", " ", "(">>
ReturnClose == <<")", ";">>
ProviderName == <<"ReduxProvider">>
importStatement == <<"import { ", "ReduxProvider", " } from './redux/provider';">>


\* -------------------------------------------------------------- templates
\* the template literals as written between the backticks, before .trim()
demoSliceLiteral ==
  <<"\n", "import { createSlice } ... export default demoSlice.reducer;", "\n", "  ">>

storeLiteral ==
  <<"\n", "import { configureStore } ... export const store = () => { ... };", "\n", "  ">>

providerLiteral(r) ==
  IF r = 1
    THEN <<"\n", "'use client'; ... export default OptimizedReduxProvider;",
           "\n", "\n", "  ">>
    ELSE <<"\n", "  ", "'use client'; ... export default ReduxProvider;",
           "\n", "\n", "  ">>

layoutLiteral ==
  <<"\n">> \o importStatement \o
  <<"\n", "\n", "export default function RootLayout({ children }) {", "\n",
    "  ", "return", " ", "(", "\n",
    "    ", "<", "ReduxProvider", ">", "\n",
    "      ", "<html lang=\"en\">", "\n",
    "        ", "<body>{children}</body>", "\n",
    "      ", "</html>", "\n",
    "    ", "</", "ReduxProvider", ">", "\n",
    "  ", ")", ";", "\n",
    "}", "\n", "    ">>

\* mutant: the fresh layout is written without the import line
layoutTemplateNoImport == Trim(SubSeq(layoutLiteral, 1 + Len(importStatement) + 1, Len(layoutLiteral)))

\* the content handed to writeFileSync on the file-absent branch
layoutTemplate == Trim(layoutLiteral)

\* the wrapper template literal around the extracted return content
modifiedContent(returnContent) ==
  <<"\n", "          ", "<", "ReduxProvider", ">", "\n", "            ">>
  \o returnContent \o
  <<"\n", "          ", "</", "ReduxProvider", ">", "\n", "        ">>

\* ------------------------------------------------------------- filesystem
demoSlicePath == "src/app/redux/features/demo/demoSlice.js"
storePath == "src/app/redux/store.js"
providerPath == "src/app/redux/provider.jsx"
layoutPath == "src/app/layout.js"

TemplatePaths == {demoSlicePath, storePath, providerPath}
Paths == TemplatePaths \cup {layoutPath}

DirChain ==
  <<"src", "src/app", "src/app/redux", "src/app/redux/features",
    "src/app/redux/features/demo">>

DirPrefix(k) == {DirChain[i] : i \in 1..k}

\* depth of path.dirname(filePath) in the chain below the working directory
DirDepth(p) ==
  CASE p = demoSlicePath -> 5
    [] p = storePath -> 3
    [] p = providerPath -> 3
    [] p = layoutPath -> 2

\* path.dirname
Dirname(p) == DirChain[DirDepth(p)]

\* fs.mkdirSync(dir, { recursive: true })
MkdirRecursive(ds, p) == ds \cup DirPrefix(DirDepth(p))

ensureDir(ds, p) == IF Dirname(p) \in ds THEN ds ELSE MkdirRecursive(ds, p)

\* mutant: opens the file for appending
WriteFileAppend(d, p, content) == [d EXCEPT ![p] = @ \o content]

\* fs.writeFileSync(p, content): truncate and replace
WriteFileData(d, p, content) == [d EXCEPT ![p] = content]

\* ------------------------------------------------ package-manager selection
Flags == {"--pnpm", "--yarn", "--npm"}
LockNames == {"pnpm-lock.yaml", "yarn.lock", "package-lock.json"}
Executables == {"pnpm", "yarn"}

isPnpm(args) == "--pnpm" \in args
isYarn(args) == "--yarn" \in args

installCmdOf(args) ==
  IF isPnpm(args) THEN "pnpm add"
  ELSE IF isYarn(args) THEN "yarn add"
  ELSE "npm install --save"

\* ---------------------------------------------------------- layout patcher
\* mutant: looks for the import line instead of the provider's name
AlreadySetUpByImport(content) == Includes(content, importStatement)

\* mutant: the guard is missing
AlreadySetUpNever(content) == FALSE

\* content.includes("ReduxProvider")
AlreadySetUp(content) == Includes(content, ProviderName)

\* mutant: the import line is not added
WithImportForgotten(content) == content

\* add the import statement if not present
WithImport(content) ==
  IF ~Includes(content, importStatement)
    THEN importStatement \o <<"\n", "\n">> \o content
    ELSE content

\* mutant: accepts a closing token that starts right at the opening's end
ValidReturnLoose(start, end) == end >= start

\* end > start
ValidReturn(start, end) == end > start

\* the layout patcher on the content read from an existing layout.js:
\* whether it writes, what it writes and which message it logs
PatchExisting(content0) ==
  IF AlreadySetUp(content0)
    THEN [write |-> FALSE, content |-> content0, msg |-> "already present"]
    ELSE
      LET content == WithImport(content0)
          returnIndex == IndexOf(content, ReturnOpen)
      IN IF returnIndex # -1
           THEN
             LET start == returnIndex + Len(ReturnOpen)
                 end == LastIndexOf(content, ReturnClose)
             IN IF ValidReturn(start, end)
                  THEN
                    LET returnContent == Trim(Substring(content, start, end))
                        spliced == Substring(content, 0, start)
                                   \o modifiedContent(returnContent)
                                   \o SubstringFrom(content, end)
                    IN [write |-> TRUE, content |-> Trim(spliced),
                        msg |-> "modified"]
                  ELSE [write |-> FALSE, content |-> content0,
                        msg |-> "no valid return"]
           ELSE [write |-> FALSE, content |-> content0, msg |-> "no return"]


\* ------------------------------------------------------------------ state
VARIABLES
  rev,        \* which revision of the script runs (1: lines 1-294, 2: 295-504)
  argv,       \* command-line flags of the invocation
  lockFiles,  \* lock files lying in the working directory
  onPath,     \* package-manager executables that answer a version probe
  installCmd, \* the install command chosen by this run ("" before the choice)
  dirs,       \* existing directories below the working directory
  present,    \* existing target files
  data,       \* content of each target file (<<>> while absent)
  pc,         \* position of the script
  exitCode,   \* process exit status, -1 while running
  out,        \* messages logged by this run
  ops,        \* subprocess and target-file operations of this run, in order
  fsErr,      \* a filesystem call has thrown in this run
  run,        \* number of the current invocation
  prevExit,   \* exit status of the previous invocation, -1 when there is none
  before      \* the directory as it was when the current invocation started

vars ==
  <<rev, argv, lockFiles, onPath, installCmd, dirs, present, data, pc,
    exitCode, out, ops, fsErr, run, prevExit, before>>

env == <<rev, argv, lockFiles, onPath>>

Snapshot == [dirs |-> dirs, present |-> present, data |-> data]

\* -------------------------------------------------------- initial states
Lexemes == {ReturnOpen, ReturnClose, ProviderName, <<"X">>, <<" ">>, <<")">>}

Layouts ==
  {Flatten(ls) : ls \in UNION {[1..n -> Lexemes] : n \in 0..MaxLen}}

SampleLayouts ==
  { <<"X", "\n">>,
    <<"return", " ", "(", " ", "X", " ", ")", ";", "\n">>,
    <<"<", "ReduxProvider", ">", "X">>,
    <<")", ";", "return", " ", "(">> }

PriorContents ==
  { <<>>, <<"X", "\n">>,
    <<"import { createSlice } ... export default demoSlice.reducer;">> }

NoData == [p \in Paths |-> <<>>]

\* a project directory the script can be started in: directories are closed
\* under parent, a file exists only inside an existing directory
InitDirectory ==
  \/ \* a fresh or previously scaffolded project, sample layouts
     /\ \E k \in 0..Len(DirChain) : dirs = DirPrefix(k)
     /\ present \in SUBSET {p \in Paths : Dirname(p) \in dirs}
     /\ data \in [Paths -> PriorContents \cup SampleLayouts]
     /\ \A p \in Paths \ present : data[p] = <<>>
     /\ \A p \in present \cap TemplatePaths : data[p] \in PriorContents
     /\ layoutPath \in present => data[layoutPath] \in SampleLayouts
     /\ argv = {} /\ lockFiles = {} /\ onPath = {}
  \/ \* an app directory with an arbitrary layout.js
     /\ dirs = DirPrefix(2)
     /\ present = {layoutPath}
     /\ \E l \in Layouts : data = [NoData EXCEPT ![layoutPath] = l]
     /\ argv = {} /\ lockFiles = {} /\ onPath = {}
  \/ \* any invocation flags and package-manager environment
     /\ dirs = DirPrefix(2)
     /\ present \in {{}, {layoutPath}}
     /\ data = [NoData EXCEPT ![layoutPath] =
                  IF layoutPath \in present
                    THEN <<"return", " ", "(", "X", ")", ";">> ELSE <<>>]
     /\ argv \in SUBSET Flags
     /\ lockFiles \in SUBSET LockNames
     /\ onPath \in SUBSET Executables

Init ==
  /\ rev \in {1, 2}
  /\ InitDirectory
  /\ installCmd = ""
  /\ pc = "start"
  /\ exitCode = -1
  /\ out = {}
  /\ ops = <<>>
  /\ fsErr = FALSE
  /\ run = 1
  /\ prevExit = -1
  /\ before = Snapshot

\* ----------------------------------------------------------------- steps
\* mutant: the third write is issued before the second
NextStepSwapped(step) ==
  CASE step = "slice" -> "provider"
    [] step = "provider" -> "store"
    [] step = "store" -> "layout"
    [] step = "layout" -> "complete"

\* statement order of the script after the install
NextStep(step) ==
  CASE step = "slice" -> "store"
    [] step = "store" -> "provider"
    [] step = "provider" -> "layout"
    [] step = "layout" -> "complete"

\* mutant: the failure of the subprocess is ignored
AfterInstallIgnoring(ok) == "slice"

\* where the script goes after execSync returned (ok) or threw
AfterInstall(ok) == IF ok THEN "slice" ELSE "failed"

\* an uncaught exception: node prints it and exits with status 1
Throw ==
  /\ pc' = "crashed"
  /\ exitCode' = 1
  /\ fsErr' = TRUE

\* isPnpm / isYarn / installCmd, then the "Installing" log line
Select ==
  /\ pc = "start"
  /\ installCmd' = installCmdOf(argv)
  /\ out' = out \cup {"Installing Redux packages..."}
  /\ pc' = "install"
  /\ UNCHANGED <<env, dirs, present, data, exitCode, ops, fsErr, run, prevExit, before>>

\* execSync(installCmd ...): returns, or throws on non-zero exit / spawn error
Install ==
  /\ pc = "install"
  /\ \E ok \in BOOLEAN :
       /\ pc' = AfterInstall(ok)
       /\ exitCode' = IF AfterInstall(ok) = "failed" THEN 1 ELSE exitCode
       /\ out' = IF ~ok /\ rev = 2 THEN out \cup {"Installation failed:"} ELSE out
       /\ ops' = Append(ops, <<"execSync", IF ok THEN "ok" ELSE "error">>)
  /\ UNCHANGED <<env, installCmd, dirs, present, data, fsErr, run, prevExit, before>>

\* ensureDir(p); fs.writeFileSync(p, content) with every way either can throw
\* (pre: the target-file operations of the same step that came before)
WriteFile(p, content, pre) ==
  \E res \in {"ok", "mkdir throws", "write throws"} :
    IF res = "ok"
      THEN /\ dirs' = ensureDir(dirs, p)
           /\ present' = present \cup {p}
           /\ data' = WriteFileData(data, p, content)
           /\ ops' = Append(ops \o pre, <<"write", p>>)
           /\ pc' = NextStep(pc)
           /\ UNCHANGED <<exitCode, fsErr>>
    ELSE IF res = "mkdir throws"
      THEN /\ Dirname(p) \notin dirs
           /\ \E k \in 0..(DirDepth(p) - 1) : dirs' = dirs \cup DirPrefix(k)
           /\ ops' = Append(ops \o pre, <<"mkdir", p>>)
           /\ Throw
           /\ UNCHANGED <<present, data>>
      ELSE /\ dirs' = ensureDir(dirs, p)
           /\ \E truncated \in BOOLEAN :
                IF truncated
                  THEN /\ present' = present \cup {p}
                       /\ data' = [data EXCEPT ![p] = <<>>]
                  ELSE UNCHANGED <<present, data>>
           /\ ops' = Append(ops \o pre, <<"write", p>>)
           /\ Throw

WriteSlice ==
  /\ pc = "slice"
  /\ WriteFile(demoSlicePath, Trim(demoSliceLiteral), <<>>)
  /\ UNCHANGED <<env, installCmd, out, run, prevExit, before>>

WriteStore ==
  /\ pc = "store"
  /\ WriteFile(storePath, Trim(storeLiteral), <<>>)
  /\ UNCHANGED <<env, installCmd, out, run, prevExit, before>>

WriteProvider ==
  /\ pc = "provider"
  /\ WriteFile(providerPath, Trim(providerLiteral(rev)), <<>>)
  /\ UNCHANGED <<env, installCmd, out, run, prevExit, before>>

\* 4. Modify layout.js.  On the patch branch the script calls writeFileSync
\* without ensureDir; layout.js exists there, so its directory does and the
\* ensureDir inside WriteFile changes nothing.
PatchLayout ==
  /\ pc = "layout"
  /\ IF layoutPath \in present
       THEN \E readOk \in BOOLEAN :
         IF ~readOk
           THEN /\ ops' = ops \o << <<"exists", layoutPath>>, <<"read", layoutPath>> >>
                /\ Throw
                /\ UNCHANGED <<dirs, present, data, out>>
           ELSE
             LET r == PatchExisting(data[layoutPath])
             IN IF r.write
                  THEN /\ out' = out \cup {r.msg}
                       /\ WriteFile(layoutPath, r.content,
                                    << <<"exists", layoutPath>>,
                                       <<"read", layoutPath>> >>)
                  ELSE /\ out' = out \cup {r.msg}
                       /\ ops' = ops \o << <<"exists", layoutPath>>,
                                           <<"read", layoutPath>> >>
                       /\ pc' = NextStep(pc)
                       /\ UNCHANGED <<dirs, present, data, exitCode, fsErr>>
       ELSE /\ out' = out \cup {"not found, creating"}
            /\ WriteFile(layoutPath, layoutTemplate, << <<"exists", layoutPath>> >>)
  /\ UNCHANGED <<env, installCmd, run, prevExit, before>>

\* the final log line; the script ends and node exits with status 0
Complete ==
  /\ pc = "complete"
  /\ out' = out \cup {"Redux setup complete!"}
  /\ pc' = "done"
  /\ exitCode' = 0
  /\ UNCHANGED <<env, installCmd, dirs, present, data, ops, fsErr, run, prevExit, before>>

Terminated == pc \in {"done", "failed", "crashed"}

\* the user invokes the script again in the same directory, after a run
\* that completed or stopped at the install (a run ended by a thrown
\* filesystem call leaves a directory that Init already starts from)
Rerun ==
  /\ Terminated
  /\ ~fsErr
  /\ run < MaxRuns
  /\ run' = run + 1
  /\ prevExit' = exitCode
  /\ before' = Snapshot
  /\ pc' = "start"
  /\ exitCode' = -1
  /\ out' = {}
  /\ ops' = <<>>
  /\ fsErr' = FALSE
  /\ installCmd' = ""
  /\ UNCHANGED <<env, dirs, present, data>>

Next ==
  \/ Select
  \/ Install
  \/ WriteSlice
  \/ WriteStore
  \/ WriteProvider
  \/ PatchLayout
  \/ Complete
  \/ Rerun

Spec == Init /\ [][Next]_vars


\* ================================================================ claims
Range(f) == {f[i] : i \in DOMAIN f}

InstallFailed == ops # <<>> /\ ops[1] = <<"execSync", "error">>

\* the layout patcher of this run has finished without throwing
PatcherFinished == pc \in {"complete", "done"}

HadLayout == layoutPath \in before.present
OldLayout == before.data[layoutPath]
NewLayout == data[layoutPath]

Mentions(s, atom) == \E i \in 1..Len(s) : s[i] = atom

LayoutUntouched ==
  /\ layoutPath \in present <=> layoutPath \in before.present
  /\ NewLayout = OldLayout

\* the template contents as they must be on disk
SliceOnDisk == <<"import { createSlice } ... export default demoSlice.reducer;">>
StoreOnDisk == <<"import { configureStore } ... export const store = () => { ... };">>
ProviderOnDisk ==
  IF rev = 1
    THEN <<"'use client'; ... export default OptimizedReduxProvider;">>
    ELSE <<"'use client'; ... export default ReduxProvider;">>

OnDisk(p) ==
  CASE p = demoSlicePath -> SliceOnDisk
    [] p = storePath -> StoreOnDisk
    [] p = providerPath -> ProviderOnDisk

\* C1: whenever the install subprocess fails, the run is over with a non-zero
\* exit status, the directories and the four target files are exactly as
\* they were before the run, nothing after the install was attempted and the
\* completion message is not logged.
C1_InstallFailureIsFatal ==
  InstallFailed =>
    /\ pc = "failed"
    /\ exitCode > 0
    /\ Snapshot = before
    /\ Len(ops) = 1
    /\ "Redux setup complete!" \notin out

C1_Witness ==
  /\ InstallFailed
  /\ pc = "failed"
  /\ before.present = Paths
  /\ rev = 2

\* the manager the specification's precedence selects
SpecManager ==
  IF "--pnpm" \in argv THEN "pnpm"
  ELSE IF "--yarn" \in argv THEN "yarn"
  ELSE IF "--npm" \in argv THEN "npm"
  ELSE IF "pnpm-lock.yaml" \in lockFiles THEN "pnpm"
  ELSE IF "yarn.lock" \in lockFiles THEN "yarn"
  ELSE IF "package-lock.json" \in lockFiles THEN "npm"
  ELSE IF "pnpm" \in onPath THEN "pnpm"
  ELSE IF "yarn" \in onPath THEN "yarn"
  ELSE "npm"

ManagerOf(cmd) ==
  CASE cmd = "pnpm add" -> "pnpm"
    [] cmd = "yarn add" -> "yarn"
    [] cmd = "npm install --save" -> "npm"

\* C2: once the install command is chosen, its manager is the one given by
\* explicit flag, else lock file, else executable probe, else npm.
C2_SelectionPrecedence ==
  installCmd # "" => ManagerOf(installCmd) = SpecManager

\* C3: after a run that completed (install succeeded, no filesystem call
\* threw), each of the three template files exists, inside its directory,
\* with exactly its fixed template as content, whatever was there before.
C3_DestructiveOverwrite ==
  pc = "done" =>
    \A p \in TemplatePaths :
      /\ p \in present
      /\ Dirname(p) \in dirs
      /\ data[p] = OnDisk(p)

C3_Witness ==
  /\ pc = "done"
  /\ run = 1
  /\ before.data[demoSlicePath] = <<"X", "\n">>
  /\ before.data[storePath] = <<>> /\ storePath \in before.present
  /\ providerPath \notin before.present


\* C4: if layout.js existed before the run and mentions ReduxProvider, it is
\* never written in that run: its content stays what it was, the patcher
\* that got to read it only logs the skip, and the run completes with exit
\* status 0.
C4_AlreadyPatchedIsNoOp ==
  (HadLayout /\ Mentions(OldLayout, "ReduxProvider")) =>
    /\ LayoutUntouched
    /\ <<"write", layoutPath>> \notin Range(ops)
    /\ (<<"read", layoutPath>> \in Range(ops) /\ ~fsErr) =>
         (PatcherFinished /\ "already present" \in out)
    /\ pc = "done" => (exitCode = 0 /\ "Redux setup complete!" \in out)

C4_Witness ==
  /\ HadLayout
  /\ Mentions(OldLayout, "ReduxProvider")
  /\ Occurrences(OldLayout, ReturnOpen) # {}
  /\ pc = "done"
  /\ run = 1

OpenTag == <<"<", "ReduxProvider", ">">>
CloseTag == <<"</", "ReduxProvider", ">">>

Count(s, p) == Cardinality(Occurrences(s, p))
The(S) == CHOOSE x \in S : TRUE
AllWhite(s) == \A i \in 1..Len(s) : s[i] \in WhiteSpace

\* an existing layout.js without the provider's name and with exactly one
\* "return (" and exactly one ");", the latter after the end of the former
Patchable ==
  /\ HadLayout
  /\ ~Mentions(OldLayout, "ReduxProvider")
  /\ Count(OldLayout, ReturnOpen) = 1
  /\ Count(OldLayout, ReturnClose) = 1
  /\ The(Occurrences(OldLayout, ReturnClose))
       > The(Occurrences(OldLayout, ReturnOpen)) + Len(ReturnOpen)

OldInner ==
  SubSeq(OldLayout,
         The(Occurrences(OldLayout, ReturnOpen)) + Len(ReturnOpen) + 1,
         The(Occurrences(OldLayout, ReturnClose)))

Unpatchable ==
  /\ HadLayout
  /\ ~Mentions(OldLayout, "ReduxProvider")
  /\ \/ Occurrences(OldLayout, ReturnOpen) = {}
     \/ \A j \in Occurrences(OldLayout, ReturnClose) :
          j <= SetMin(Occurrences(OldLayout, ReturnOpen)) + Len(ReturnOpen)

\* C6: such a layout.js is never written in the run (the import line added
\* in memory does not reach the disk); the patcher that got to read it logs
\* one of the two warnings and goes on; a completed run logs the completion
\* message and exits with status 0.
C6_PatternNotFoundLeavesFile ==
  Unpatchable =>
    /\ LayoutUntouched
    /\ <<"write", layoutPath>> \notin Range(ops)
    /\ (<<"read", layoutPath>> \in Range(ops) /\ ~fsErr) =>
         /\ PatcherFinished
         /\ out \cap {"no return", "no valid return"} # {}
         /\ "modified" \notin out
    /\ pc = "done" => (exitCode = 0 /\ "Redux setup complete!" \in out)

C6_Witness ==
  /\ Unpatchable
  /\ Occurrences(OldLayout, ReturnOpen) # {}
  /\ Occurrences(OldLayout, ReturnClose) # {}
  /\ pc = "done"
  /\ "no valid return" \in out


\* the fresh layout.js as it must be on disk
FreshLayoutOnDisk ==
  <<"import { ", "ReduxProvider", " } from './redux/provider';", "\n", "\n",
    "export default function RootLayout({ children }) {", "\n",
    "  ", "return", " ", "(", "\n",
    "    ", "<", "ReduxProvider", ">", "\n",
    "      ", "<html lang=\"en\">", "\n",
    "        ", "<body>{children}</body>", "\n",
    "      ", "</html>", "\n",
    "    ", "</", "ReduxProvider", ">", "\n",
    "  ", ")", ";", "\n",
    "}">>

\* C7: if layout.js did not exist when the run started, the run never reads
\* it, and once the patcher has finished the file exists inside src/app with
\* the fresh template as content: the import line first, and one "return ("
\* whose markup lies between one opening and one closing provider tag.
C7_AbsentLayoutIsCreated ==
  ~HadLayout =>
    /\ <<"read", layoutPath>> \notin Range(ops)
    /\ PatcherFinished =>
         /\ layoutPath \in present
         /\ Dirname(layoutPath) \in dirs
         /\ NewLayout = FreshLayoutOnDisk
         /\ MatchAt(NewLayout, importStatement, 0)
         /\ Count(NewLayout, OpenTag) = 1
         /\ Count(NewLayout, CloseTag) = 1
         /\ "not found, creating" \in out
         /\ out \cap {"modified", "already present", "no return",
                      "no valid return"} = {}

C7_Witness ==
  /\ ~HadLayout
  /\ before.dirs = {}
  /\ pc = "done"
  /\ layoutPath \in present

WrapOpen == <<"\n", "          ", "<", "ReduxProvider", ">", "\n", "            ">>
WrapClose == <<"\n", "          ", "</", "ReduxProvider", ">", "\n", "        ">>

\* the old layout.js with the import line and a blank line put in front
Prepended == importStatement \o <<"\n", "\n">> \o OldLayout

FirstOpenEnd == SetMin(Occurrences(Prepended, ReturnOpen)) + Len(ReturnOpen)
LastClose == SetMax(Occurrences(Prepended, ReturnClose))

LayoutRewritten ==
  /\ HadLayout
  /\ <<"write", layoutPath>> \in Range(ops)
  /\ PatcherFinished

\* C8: when the patcher has rewritten an existing layout.js, the new content
\* is, trimmed as a whole: the import-prepended old content up to the end of
\* its FIRST "return (", the wrapper around the trimmed text between that
\* point and the LAST ");", and the old content from that last ");" on.
C8_FirstOpenLastClose ==
  LayoutRewritten =>
    /\ Occurrences(Prepended, ReturnOpen) # {}
    /\ Occurrences(Prepended, ReturnClose) # {}
    /\ FirstOpenEnd < LastClose
    /\ NewLayout =
         Trim(SubSeq(Prepended, 1, FirstOpenEnd)
              \o WrapOpen
              \o Trim(SubSeq(Prepended, FirstOpenEnd + 1, LastClose))
              \o WrapClose
              \o SubSeq(Prepended, LastClose + 1, Len(Prepended)))

C8_Witness ==
  /\ LayoutRewritten
  /\ Count(OldLayout, ReturnOpen) = 2
  /\ Count(OldLayout, ReturnClose) = 2
  /\ pc = "done"

\* position of an operation's target in the script's order
Rank(op) ==
  CASE op[1] = "execSync" -> 0
    [] op[2] = demoSlicePath -> 1
    [] op[2] = storePath -> 2
    [] op[2] = providerPath -> 3
    [] op[2] = layoutPath -> 4

RankOfPath(p) == Rank(<<"write", p>>)

\* C9: the operations of a run come in the order install, slice, store,
\* provider, layout, none skipped; and when a template's directory creation
\* or write throws, the process is over with a non-zero exit status and no
\* completion message, the templates before it are on disk with their full
\* template content, and the later templates and layout.js are as they were
\* before the run.
C9_NoRollback ==
  /\ \A i \in 1..Len(ops) :
       /\ i = 1 => Rank(ops[i]) = 0
       /\ i > 1 => Rank(ops[i]) \in {Rank(ops[i - 1]), Rank(ops[i - 1]) + 1}
       /\ (i > 1 /\ Rank(ops[i]) < 4) => Rank(ops[i]) = Rank(ops[i - 1]) + 1
  /\ (fsErr /\ Rank(ops[Len(ops)]) \in 1..3) =>
       /\ pc = "crashed"
       /\ exitCode > 0
       /\ "Redux setup complete!" \notin out
       /\ \A p \in TemplatePaths :
            /\ RankOfPath(p) < Rank(ops[Len(ops)]) =>
                 (p \in present /\ data[p] = OnDisk(p))
            /\ RankOfPath(p) > Rank(ops[Len(ops)]) =>
                 /\ p \in present <=> p \in before.present
                 /\ data[p] = before.data[p]
       /\ LayoutUntouched

C9_Witness ==
  /\ pc = "crashed"
  /\ ops[Len(ops)] = <<"write", providerPath>>
  /\ data[demoSlicePath] = SliceOnDisk
  /\ data[storePath] = StoreOnDisk
  /\ before.data[demoSlicePath] = <<"X", "\n">>
  /\ before.data[providerPath] = <<"X", "\n">>
  /\ data[providerPath] = <<>>
  /\ HadLayout

\* C10: when a run that completed is followed by a second run that completes
\* too, the four target files (and the directories) are after the second run
\* exactly what they were after the first.
C10_SecondRunChangesNothing ==
  (run >= 2 /\ prevExit = 0 /\ pc = "done") => Snapshot = before

C10_Witness ==
  /\ run = 2
  /\ prevExit = 0
  /\ pc = "done"
  /\ Count(NewLayout, OpenTag) = 1
  /\ Count(NewLayout, ReturnOpen) = 2
  /\ "already present" \in out

====
